---- MODULE Spec2Model ----
(***************************************************************************)
(* Model of the interview-to-Golden-Circle pipeline of the branding        *)
(* service (src/app/services/branding_service.py).                         *)
(*                                                                         *)
(* Python strings are sequences of one-character strings, so that          *)
(* formatting, replace(), title() and substring tests are computed and     *)
(* not assumed.  Optional values use the one-element sequence None, which  *)
(* no string equals (its element is not a single character).               *)
(***************************************************************************)
EXTENDS Naturals, Sequences, FiniteSets

VARIABLES
    pc,              \* position of the request in create_golden_circle_response
    filename,        \* interview_file.filename (None, "" or a string)
    content_type,    \* interview_file.content_type
    payload,         \* the bytes the upload holds
    brand_name,      \* the brand_name form field (None, "" or a string)
    pdf_bytes,       \* local pdf_bytes of the pipeline (None before the read)
    extracted_text,  \* local extracted_text (None before extraction)
    client_arg,      \* markdown= argument the inference client was called with
    golden_circle,   \* local golden_circle dict
    fallback_brand,  \* brand name argument handed to the fallback generator
    source,          \* which generator produced golden_circle
    outcome,         \* what the caller of create_golden_circle_response gets
    logs,            \* log records emitted, in order
    calls,           \* number of calls made to each collaborator
    observed,        \* what each collaborator raised or returned in this request
    derived,         \* result of _extract_brand_name_from_filename (SpecName)
    position,        \* file position of the upload (0 = start)
    round,           \* 1 in the first call on the request, 2 in the repeated call
    first,           \* what the first call did and returned (SpecTwice)
    contents,        \* the two texts handed to the fallback generator (SpecFallback)
    results,         \* what the fallback generator returned for each of them
    peer,            \* the suspended one of two requests in flight (SpecPair)
    current,         \* which of the two requests is running (SpecPair)
    brand_identity   \* local brand_identity dict (SpecIdentity)

vars == <<pc, filename, content_type, payload, brand_name, pdf_bytes,
          extracted_text, client_arg, golden_circle, fallback_brand, source,
          outcome, logs, calls, observed, derived, position, round, first,
          contents, results, peer, current, brand_identity>>

\* state of the specifications other than the one at hand
aside == <<contents, results, peer, current, brand_identity>>

----------------------------------------------------------------------------
(* Named strings *)

FnTestJpg == <<"t","e","s","t",".","j","p","g">>
FnEmptyPdf == <<"e","m","p","t","y",".","p","d","f">>
FnOlillac == <<"O","l","i","l","l","a","c","_","i","n","t","e","r","v","i","e","w",".","p","d",
               "f">>
FnBrandInterviewCaps == <<"B","r","a","n","d","_","I","n","t","e","r","v","i","e","w",".","p","d",
                          "f">>
FnCompanyNameFinal == <<"c","o","m","p","a","n","y","_","n","a","m","e","_","i","n","t","e","r",
                        "v","i","e","w","_","f","i","n","a","l",".","p","d","f">>
FnUnderscoreMarkerOnly == <<"_","i","n","t","e","r","v","i","e","w",".","p","d","f">>
FnHyphenMarkerOnly == <<"-","i","n","t","e","r","v","i","e","w",".","p","d","f">>
FnBrandInterview == <<"b","r","a","n","d","_","i","n","t","e","r","v","i","e","w",".","t","x","t">>
FnMyCompany == <<"m","y","-","c","o","m","p","a","n","y","-","i","n","t","e","r","v","i","e","w",
                 ".","p","d","f">>
FnAwesomeBrand == <<"a","w","e","s","o","m","e","_","b","r","a","n","d","_","i","n","t","e","r",
                    "v","i","e","w",".","m","d">>
FnSimple == <<"s","i","m","p","l","e",".","t","x","t">>
BrandTestCompany == <<"T","e","s","t"," ","C","o","m","p","a","n","y">>
BrandAcme == <<"A","c","m","e">>
BrandOlillac == <<"O","l","i","l","l","a","c">>
BrandBrand == <<"B","r","a","n","d">>
BrandMyCompany == <<"M","y","-","C","o","m","p","a","n","y">>
BrandSimple == <<"S","i","m","p","l","e">>
BrandCompanyNameFinal == <<"C","o","m","p","a","n","y"," ","N","a","m","e"," ","F","i","n","a",
                           "l">>
MarkerUnderscore == <<"_","i","n","t","e","r","v","i","e","w">>
MarkerHyphen == <<"-","i","n","t","e","r","v","i","e","w">>
MimePdf == <<"a","p","p","l","i","c","a","t","i","o","n","/","p","d","f">>
MimePdfUpper == <<"a","p","p","l","i","c","a","t","i","o","n","/","P","D","F">>
MimeJpeg == <<"i","m","a","g","e","/","j","p","e","g">>
MimeText == <<"t","e","x","t","/","p","l","a","i","n">>
WhyText == <<"B","e","c","a","u","s","e",".">>
HowText == <<"B","y"," ","c","a","r","e",".">>
WhatText == <<"T","o","o","l","s",".">>

----------------------------------------------------------------------------
(* Python values *)

None == <<"None">>
Missing == <<"Missing">>

\* seeded fault: "is not None" in place of truthiness
IsNotNone(x) == x # None

\* bool(x) of an Optional[str]
Truthy(x) == x # None /\ x # <<>>

LowerLetters == <<"a","b","c","d","e","f","g","h","i","j","k","l","m","n","o","p","q","r","s","t",
                  "u","v","w","x","y","z">>
UpperLetters == <<"A","B","C","D","E","F","G","H","I","J","K","L","M","N","O","P","Q","R","S","T",
                  "U","V","W","X","Y","Z">>

Range(s) == {s[i] : i \in 1..Len(s)}

IsLower(c) == c \in Range(LowerLetters)
IsUpper(c) == c \in Range(UpperLetters)
IsCased(c) == IsLower(c) \/ IsUpper(c)

IndexOf(c, s) == CHOOSE i \in 1..Len(s) : s[i] = c

ToUpper(c) == IF IsLower(c) THEN UpperLetters[IndexOf(c, LowerLetters)] ELSE c
ToLower(c) == IF IsUpper(c) THEN LowerLetters[IndexOf(c, UpperLetters)] ELSE c

\* s[i:] and s[:i] with 0-based Python indices
From(s, i) == SubSeq(s, i + 1, Len(s))
Upto(s, i) == SubSeq(s, 1, i)

StartsWith(s, p) == Len(p) <= Len(s) /\ SubSeq(s, 1, Len(p)) = p

\* p in s
Contains(s, p) == \E i \in 0..(Len(s) - Len(p)) : SubSeq(s, i + 1, i + Len(p)) = p

\* s.rfind(c): 0-based index of the last c, or -1; returned shifted by one
\* (1-based index of the last c, 0 when there is none)
RFind(s, c) == IF \E i \in 1..Len(s) : s[i] = c
               THEN CHOOSE i \in 1..Len(s) : s[i] = c /\ \A j \in (i+1)..Len(s) : s[j] # c
               ELSE 0

\* os.path.splitext(p)[0] (posixpath: sep "/", extsep "."): the extension
\* starts at the last dot of the last path component, leading dots of that
\* component not counting
RECURSIVE SkipLeadingDots(_, _, _)
SkipLeadingDots(p, filenameIndex, dotIndex) ==
    IF filenameIndex >= dotIndex THEN p
    ELSE IF p[filenameIndex] # "." THEN Upto(p, dotIndex - 1)
    ELSE SkipLeadingDots(p, filenameIndex + 1, dotIndex)

SplitExtRoot(p) ==
    LET sepIndex == RFind(p, "/")
        dotIndex == RFind(p, ".")
    IN  IF dotIndex > sepIndex THEN SkipLeadingDots(p, sepIndex + 1, dotIndex) ELSE p

\* seeded fault: s.replace(old, new, 1), only the first occurrence
RECURSIVE ReplaceFirst(_, _, _)
ReplaceFirst(s, old, new) ==
    IF s = <<>> THEN <<>>
    ELSE IF StartsWith(s, old) THEN new \o From(s, Len(old))
    ELSE <<s[1]>> \o ReplaceFirst(Tail(s), old, new)

\* s.replace(old, new) for a non-empty old: left to right, non-overlapping
RECURSIVE Replace(_, _, _)
Replace(s, old, new) ==
    IF s = <<>> THEN <<>>
    ELSE IF StartsWith(s, old) THEN new \o Replace(From(s, Len(old)), old, new)
    ELSE <<s[1]>> \o Replace(Tail(s), old, new)

\* s.title(): a cased character is upper-cased when the character before it
\* is not cased, and lower-cased otherwise
RECURSIVE TitleFrom(_, _)
TitleFrom(s, previous_is_cased) ==
    IF s = <<>> THEN <<>>
    ELSE <<IF ~IsCased(s[1]) THEN s[1]
           ELSE IF previous_is_cased THEN ToLower(s[1]) ELSE ToUpper(s[1])>>
         \o TitleFrom(Tail(s), IsCased(s[1]))

Title(s) == TitleFrom(s, FALSE)

\* BrandingService._extract_brand_name_from_filename
ExtractBrandNameFromFilename(fname) ==
    LET base_name == SplitExtRoot(fname)
    IN  Title(Replace(Replace(Replace(base_name, MarkerUnderscore, <<>>),
                              MarkerHyphen, <<>>),
                      <<"_">>, <<" ">>))

----------------------------------------------------------------------------
(* Inputs of the brand-name derivation taken alone *)

MaxPieces == 3

Pieces == {
    <<"a","b">>, <<"C">>, <<"1">>, <<"_">>, <<"-">>, <<".">>, <<"/">>,
    MarkerUnderscore,
    MarkerHyphen,
    <<"_","I","n","t","e","r","v","i","e","w">>,
    <<"-","I","N","T","E","R","V","I","E","W">>,
    <<"_","i","n","t","e","r">>,
    <<"v","i","e","w">> }

RECURSIVE Concat(_)
Concat(ps) == IF ps = <<>> THEN <<>> ELSE Head(ps) \o Concat(Tail(ps))

PieceNames(n) == UNION {{Concat(ps) : ps \in [1..k -> Pieces]} : k \in 0..n}

\* the filenames of test_extract_brand_name_from_filename and of the spec
TestFilenames == {
    FnBrandInterview,
    FnMyCompany,
    FnAwesomeBrand,
    FnSimple,
    FnCompanyNameFinal,
    FnOlillac }

\* <stem><marker><ext> with the marker in several capitalisations
Stems == { <<"a","b">>, <<"C">>, <<"B","r","a","n","d">> }
MarkerForms == {
    MarkerUnderscore,
    MarkerHyphen,
    <<"_","I","n","t","e","r","v","i","e","w">>,
    <<"-","I","N","T","E","R","V","I","E","W">>,
    <<"_","I","N","T","E","R","V","I","E","W">> }
Extensions == { <<>>, <<".","p","d","f">> }
MarkerFilenames == {st \o m \o e : st \in Stems, m \in MarkerForms, e \in Extensions}

NameInputs == PieceNames(MaxPieces) \cup TestFilenames \cup MarkerFilenames

----------------------------------------------------------------------------
(* Exceptions, HTTP errors and log records *)

TypeHTTPException == <<"H","T","T","P","E","x","c","e","p","t","i","o","n">>
TypeUnicodeDecodeError == <<"U","n","i","c","o","d","e","D","e","c","o","d","e","E","r","r","o",
                            "r">>
TypeRuntimeError == <<"R","u","n","t","i","m","e","E","r","r","o","r">>
TypeImportError == <<"I","m","p","o","r","t","E","r","r","o","r">>
TypeOSError == <<"O","S","E","r","r","o","r">>
TypeValidationError == <<"V","a","l","i","d","a","t","i","o","n","E","r","r","o","r">>

HTTPException(status_code, detail) ==
    [type |-> TypeHTTPException, status_code |-> status_code, detail |-> detail]

\* any other exception: type(e).__name__ and its message
Exc(type, message) == [type |-> type, status_code |-> 0, detail |-> message]

NoExc == Exc(<<>>, <<>>)

IsHTTP(e) == e.type = TypeHTTPException

\* exceptions the collaborators raise in the model
ErrUpstream == HTTPException(503, <<"u","p","s","t","r","e","a","m"," ","u","n","a","v","a","i",
                                    "l","a","b","l","e">>)
ErrDecode == Exc(TypeUnicodeDecodeError, <<"i","n","v","a","l","i","d"," ","s","t","a","r","t"," ","b",
                                           "y","t","e">>)
ErrRuntime == Exc(TypeRuntimeError, <<"b","o","o","m">>)
ErrClosedFile == Exc(TypeOSError, <<"c","l","o","s","e","d"," ","f","i","l","e">>)
ErrImport == Exc(TypeImportError, <<"N","o"," ","m","o","d","u","l","e"," ","n","a","m","e","d">>)

Digits == <<"0","1","2","3","4","5","6","7","8","9">>

RECURSIVE IntStr(_)
IntStr(n) == IF n < 10 THEN <<Digits[n + 1]>> ELSE IntStr(n \div 10) \o <<Digits[(n % 10) + 1]>>

\* str(e): an HTTPException prints as "<status_code>: <detail>"
StrExc(e) == IF IsHTTP(e) THEN IntStr(e.status_code) \o <<":"," ">> \o e.detail ELSE e.detail

LogRecord(level, text) == [level |-> level, text |-> text]

MsgNoFile == <<"N","o"," ","f","i","l","e"," ","p","r","o","v","i","d","e","d">>
MsgUnsupported == <<"U","n","s","u","p","p","o","r","t","e","d"," ","f","i","l","e"," ","t","y",
                    "p","e","."," ","A","l","l","o","w","e","d"," ","t","y","p","e","s",":"," ">>
MsgEncoding == <<"F","i","l","e"," ","e","n","c","o","d","i","n","g"," ","n","o","t"," ","s","u",
                 "p","p","o","r","t","e","d","."," ","P","l","e","a","s","e"," ","u","s","e"," ",
                 "U","T","F","-","8",".">>
MsgInternal == <<"I","n","t","e","r","n","a","l"," ","s","e","r","v","e","r"," ","e","r","r","o",
                 "r"," ","p","r","o","c","e","s","s","i","n","g"," ","f","i","l","e">>
MsgUnexpected ==
    <<"A","n"," ","u","n","e","x","p","e","c","t","e","d"," ","e","r","r","o","r"," ","o","c","c",
      "u","r","r","e","d"," ","w","h","i","l","e"," ","p","r","o","c","e","s","s","i","n","g"," ",
      "t","h","e"," ","G","o","l","d","e","n"," ","C","i","r","c","l","e"," ","r","e","q","u","e",
      "s","t">>
MsgFailedExtract ==
    <<"F","a","i","l","e","d"," ","t","o"," ","e","x","t","r","a","c","t"," ","t","e","x","t"," ",
      "f","r","o","m"," ","P","D","F","."," ","E","n","s","u","r","e"," ","t","h","e"," ","P","D",
      "F"," ","i","s"," ","r","e","a","d","a","b","l","e",".">>
MsgValidation == <<"v","a","l","i","d","a","t","i","o","n"," ","e","r","r","o","r"," ","f","o",
                   "r"," ","G","o","l","d","e","n","C","i","r","c","l","e","R","e","s","p","o",
                   "n","s","e">>
LogGenerated == <<"S","u","c","c","e","s","s","f","u","l","l","y"," ","g","e","n","e","r","a","t",
                  "e","d"," ","G","o","l","d","e","n"," ","C","i","r","c","l","e"," ","f","o","r",
                  " ">>
LogBamlFailed == <<"B","A","M","L"," ","G","o","l","d","e","n"," ","C","i","r","c","l","e"," ",
                   "e","x","t","r","a","c","t","i","o","n"," ","f","a","i","l","e","d"," ","(">>
LogFallingBack == <<")","."," ","F","a","l","l","i","n","g"," ","b","a","c","k"," ","t","o"," ",
                    "h","e","u","r","i","s","t","i","c"," ","g","e","n","e","r","a","t","i","o",
                    "n",".">>
LogProcessingError == <<"E","r","r","o","r"," ","p","r","o","c","e","s","s","i","n","g"," ","i",
                        "n","t","e","r","v","i","e","w"," ","f","i","l","e"," ","f","o","r"," ",
                        "G","o","l","d","e","n"," ","C","i","r","c","l","e",":"," ">>
LogUnexpected == <<"U","n","e","x","p","e","c","t","e","d"," ","e","r","r","o","r"," ","i","n",
                   " ","G","o","l","d","e","n"," ","C","i","r","c","l","e"," ","c","r","e","a",
                   "t","i","o","n",":"," ">>
LogDocling == <<"D","o","c","l","i","n","g"," ","P","D","F"," ","e","x","t","r","a","c","t","i",
                "o","n"," ","f","a","i","l","e","d",":"," ">>

\* str(x) of an Optional[str] inside an f-string
Str(x) == IF x = None \/ x = Missing THEN <<"N","o","n","e">> ELSE x

\* repr() of a list of strings, as an f-string formats it
RECURSIVE ReprItems(_)
ReprItems(l) ==
    IF l = <<>> THEN <<>>
    ELSE <<"'">> \o Head(l) \o <<"'">>
         \o (IF Len(l) > 1 THEN <<","," ">> ELSE <<>>) \o ReprItems(Tail(l))

ReprList(l) == <<"[">> \o ReprItems(l) \o <<"]">>

\* seeded fault: the text types of the endpoint's description still accepted
allowed_types_legacy ==
    << MimePdf,
       MimeText >>

\* allowed_types of create_golden_circle_from_interview
allowed_types == << MimePdf >>

InList(x, l) == \E i \in 1..Len(l) : l[i] = x

\* seeded fault: the text format of the endpoint's description still advertised
supported_formats_legacy ==
    << [extension |-> <<".","p","d","f">>,
        mime_type |-> MimePdf,
        description |-> <<"P","D","F"," ","d","o","c","u","m","e","n","t","s">>],
       [extension |-> <<".","t","x","t">>,
        mime_type |-> MimeText,
        description |-> <<"P","l","a","i","n"," ","t","e","x","t"," ","f","i","l","e","s">>] >>

\* get_supported_file_formats()["supported_formats"]
supported_formats ==
    << [extension |-> <<".","p","d","f">>,
        mime_type |-> MimePdf,
        description |-> <<"P","D","F"," ","d","o","c","u","m","e","n","t","s">>] >>

----------------------------------------------------------------------------
(* Dicts of the pipeline.  A dict with the keys brand_name and              *)
(* golden_circle{why, how, what}; a key that is absent holds Missing.      *)

Dict(b, w, h, t) ==
    [brand_name |-> b, golden_circle |-> [why |-> w, how |-> h, what |-> t]]

EmptyDict == Dict(Missing, Missing, Missing, Missing)

FallbackWhyHead == <<"W","e"," ","b","e","l","i","e","v","e"," ","t","h","a","t"," ","b","u","s",
                     "i","n","e","s","s","e","s"," ","l","i","k","e"," ">>
FallbackWhyTail ==
    <<" ","s","h","o","u","l","d"," ","c","r","e","a","t","e"," ","m","e","a","n","i","n","g","f",
      "u","l"," ","i","m","p","a","c","t"," ","b","y"," ","s","o","l","v","i","n","g"," ","r","e",
      "a","l"," ","p","r","o","b","l","e","m","s"," ","a","n","d"," ","e","m","p","o","w","e","r",
      "i","n","g"," ","t","h","e","i","r"," ","c","u","s","t","o","m","e","r","s"," ","t","o"," ",
      "a","c","h","i","e","v","e"," ","t","h","e","i","r"," ","g","o","a","l","s",".">>
FallbackHow ==
    <<"O","u","r"," ","a","p","p","r","o","a","c","h"," ","f","o","c","u","s","e","s"," ","o","n",
      " ","i","n","n","o","v","a","t","i","v","e"," ","s","o","l","u","t","i","o","n","s"," ","a",
      "n","d"," ","a"," ","c","l","e","a","r"," ","p","r","o","c","e","s","s",":"," ","w","e"," ",
      "l","i","s","t","e","n",","," ","i","t","e","r","a","t","e",","," ","a","n","d"," ","d","e",
      "l","i","v","e","r"," ","w","i","t","h"," ","h","i","g","h"," ","q","u","a","l","i","t","y",
      " ","s","t","a","n","d","a","r","d","s"," ","a","n","d"," ","r","e","l","i","a","b","l","e",
      " ","s","e","r","v","i","c","e","."," ","T","h","i","s"," ","m","e","t","h","o","d"," ","b",
      "u","i","l","d","s"," ","g","e","n","u","i","n","e"," ","r","e","l","a","t","i","o","n","s",
      "h","i","p","s"," ","w","i","t","h"," ","c","u","s","t","o","m","e","r","s"," ","t","h","r",
      "o","u","g","h"," ","t","r","a","n","s","p","a","r","e","n","c","y",".">>
FallbackWhatTail ==
    <<" ","p","r","o","v","i","d","e","s"," ","p","r","o","f","e","s","s","i","o","n","a","l"," ",
      "s","e","r","v","i","c","e","s"," ","a","n","d"," ","s","o","l","u","t","i","o","n","s"," ",
      "t","h","a","t"," ","h","e","l","p"," ","c","l","i","e","n","t","s"," ","s","t","r","e","a",
      "m","l","i","n","e"," ","t","h","e","i","r"," ","o","p","e","r","a","t","i","o","n","s"," ",
      "a","n","d"," ","g","r","o","w"," ","t","h","e","i","r"," ","b","u","s","i","n","e","s","s",
      " ","e","f","f","e","c","t","i","v","e","l","y",".">>

\* seeded fault: a generator whose "why" is a preview of the content
ProcessInterviewFromContent(content, name) ==
    Dict(name, content, FallbackHow, Str(name) \o FallbackWhatTail)

\* BrandingService._process_interview_for_golden_circle
ProcessInterviewForGoldenCircle(content, name) ==
    Dict(name,
         FallbackWhyHead \o Str(name) \o FallbackWhyTail,
         FallbackHow,
         Str(name) \o FallbackWhatTail)

\* seeded fault: the file's stem, not cleaned up
ResolveBrandNameFromStem(override, fname) ==
    IF Truthy(override) THEN override ELSE SplitExtRoot(fname)

\* brand_name or self._extract_brand_name_from_filename(interview_file.filename)
ResolveBrandName(override, fname) ==
    IF Truthy(override) THEN override ELSE ExtractBrandNameFromFilename(fname)

\* seeded fault: the form field replaces the inferred name even when empty
OverrideAlways(gc, override) ==
    IF override # None THEN [gc EXCEPT !.brand_name = override] ELSE gc

\* seeded fault: the inferred name is kept
KeepInferred(gc, override) == gc

\* if brand_name: golden_circle["brand_name"] = brand_name
OverrideInferred(gc, override) ==
    IF Truthy(override) THEN [gc EXCEPT !.brand_name = override] ELSE gc

\* a str field of a pydantic model accepts a string (the empty one too),
\* and neither None nor an absent key
IsStr(x) == x # None /\ x # Missing

\* GoldenCircleResponse(**golden_circle_data) validates
Validates(data) ==
    /\ IsStr(data.brand_name)
    /\ IsStr(data.golden_circle.why)
    /\ IsStr(data.golden_circle.how)
    /\ IsStr(data.golden_circle.what)

----------------------------------------------------------------------------
(* Requests and what the collaborators may do *)

Filenames == {
    None, <<>>,
    FnTestJpg,
    FnEmptyPdf,
    FnOlillac,
    FnBrandInterviewCaps,
    FnCompanyNameFinal,
    FnUnderscoreMarkerOnly,
    FnHyphenMarkerOnly }

ContentTypes == {
    None,
    MimePdf,
    MimePdfUpper,
    MimeJpeg,
    MimeText }

Payloads == { <<>>, <<"%","P","D","F","-","1",".","4">> }

BrandNames == { None, <<>>, BrandTestCompany, <<" ">> }

\* markdown the converter may export
Texts == { <<>>, <<"#","#"," ","Q",":"," ","W","h","y","?"," ","A",":"," ","T","o"," ","h","e",
                   "l","p",".">> }

\* exceptions a collaborator (upload, converter, inference client) may raise
CollaboratorErrors == {
    ErrUpstream,
    ErrDecode,
    ErrRuntime }

UploadErrors == CollaboratorErrors \cup { ErrClosedFile }

ImportErrors == { ErrImport }

\* the upload: read() and seek(0) return, or one of them raises
UploadOutcomes ==
    {[at |-> "none", exc |-> NoExc]}
    \cup {[at |-> a, exc |-> e] : a \in {"read", "seek"}, e \in UploadErrors}

\* the converter: exports markdown, or the import / the conversion raises
ConverterOutcomes ==
    {[ok |-> TRUE, text |-> t, exc |-> NoExc] : t \in Texts}
    \cup {[ok |-> FALSE, text |-> None, exc |-> e] :
            e \in CollaboratorErrors \cup ImportErrors}

\* baml_resp.model_dump() of a call that returns
ClientDicts ==
    {Dict(b, g[1], g[2], g[3]) :
        b \in {None, <<>>, BrandAcme},
        g \in { <<WhyText, HowText, WhatText>>,
                <<<<>>, HowText, WhatText>>,
                <<WhyText, HowText, Missing>> }}

\* the inference client: returns a result, or the import / the call raises
ClientOutcomes ==
    {[ok |-> TRUE, dict |-> d, exc |-> NoExc] : d \in ClientDicts}
    \cup {[ok |-> FALSE, dict |-> EmptyDict, exc |-> e] :
            e \in CollaboratorErrors \cup ImportErrors}

NothingObserved ==
    [upload |-> NoExc, extractor |-> NoExc, client |-> NoExc, client_dict |-> EmptyDict]

NoCalls == [read |-> 0, seek |-> 0, extractor |-> 0, client |-> 0, fallback |-> 0]

Pending == [kind |-> "pending", status_code |-> 0, detail |-> <<>>, body |-> EmptyDict]

\* no second request in flight
NoPeer == [pc |-> "none"]

\* the record of the first call, before there was one
NoFirst ==
    [outcome |-> Pending, observed |-> NothingObserved, calls |-> NoCalls,
     pdf_bytes |-> None, extracted_text |-> None]

Response(data) == [kind |-> "response", status_code |-> 200, detail |-> <<>>, body |-> data]

Error(e) == [kind |-> "error", status_code |-> e.status_code, detail |-> e.detail,
             body |-> EmptyDict]

----------------------------------------------------------------------------
(* Exception handlers *)

\* seeded fault: no clause for UnicodeDecodeError
InterviewHandlerNoDecodeClause(e) ==
    IF IsHTTP(e) THEN e ELSE HTTPException(500, MsgInternal)

\* seeded fault: the generic handler answers with a client error
InterviewHandlerClientError(e) ==
    IF IsHTTP(e) THEN e
    ELSE IF e.type = TypeUnicodeDecodeError THEN HTTPException(400, MsgEncoding)
    ELSE HTTPException(400, MsgInternal)

\* seeded fault: the generic handler reports the exception's own text
InterviewHandlerLeaking(e) ==
    IF IsHTTP(e) THEN e
    ELSE IF e.type = TypeUnicodeDecodeError THEN HTTPException(400, MsgEncoding)
    ELSE HTTPException(500, StrExc(e))

\* except clauses of create_golden_circle_from_interview
InterviewHandler(e) ==
    IF IsHTTP(e) THEN e
    ELSE IF e.type = TypeUnicodeDecodeError THEN HTTPException(400, MsgEncoding)
    ELSE HTTPException(500, MsgInternal)

InterviewHandlerLogs(e) ==
    IF IsHTTP(e) \/ e.type = TypeUnicodeDecodeError THEN <<>>
    ELSE <<LogRecord("error", LogProcessingError \o StrExc(e))>>

\* seeded fault: the wrapper reports the exception's own text
ResponseHandlerLeaking(e) ==
    IF IsHTTP(e) THEN e ELSE HTTPException(500, StrExc(e))

\* except clauses of create_golden_circle_response
ResponseHandler(e) ==
    IF IsHTTP(e) THEN e ELSE HTTPException(500, MsgUnexpected)

ResponseHandlerLogs(e) ==
    IF IsHTTP(e) THEN <<>> ELSE <<LogRecord("error", LogUnexpected \o StrExc(e))>>

\* seeded fault: the extractor lets every exception through
ExtractHandlerReraise(e) == e

\* except clauses of _extract_text_from_pdf_bytes
ExtractHandler(e) ==
    IF IsHTTP(e) THEN e ELSE HTTPException(400, MsgFailedExtract)

ExtractHandlerLogs(e) ==
    IF IsHTTP(e) THEN <<>> ELSE <<LogRecord("error", LogDocling \o StrExc(e))>>

\* the exception classes of the model; each derives from Exception
ExceptionClasses ==
    {TypeHTTPException, TypeUnicodeDecodeError, TypeRuntimeError, TypeImportError,
     TypeOSError, TypeValidationError}

\* seeded fault: the inner handler leaves to the outer handlers the kinds they name
InnerHandlerSparesOuterKinds(e) ==
    e.type \in ExceptionClasses \ {TypeHTTPException, TypeUnicodeDecodeError}

\* except Exception as e, of the inner try
InnerHandlerCatches(e) == e.type \in ExceptionClasses

\* an exception raised in the try block of create_golden_circle_from_interview
\* reaches the caller through both handlers
Raise(e, more_logs) ==
    LET e1 == InterviewHandler(e)
        e2 == ResponseHandler(e1)
    IN  /\ outcome' = Error(e2)
        /\ logs' = logs \o more_logs \o InterviewHandlerLogs(e) \o ResponseHandlerLogs(e1)
        /\ pc' = "done"

----------------------------------------------------------------------------
(* The request: create_golden_circle_response calling                      *)
(* create_golden_circle_from_interview                                     *)

Init ==
    /\ pc = "validate"
    /\ filename \in Filenames
    /\ content_type \in ContentTypes
    /\ payload \in Payloads
    /\ brand_name \in BrandNames
    /\ pdf_bytes = None
    /\ extracted_text = None
    /\ client_arg = None
    /\ golden_circle = EmptyDict
    /\ fallback_brand = None
    /\ source = "none"
    /\ outcome = Pending
    /\ logs = <<>>
    /\ calls = NoCalls
    /\ observed = NothingObserved
    /\ derived = None
    /\ position = 0
    /\ round = 1
    /\ first = NoFirst
    /\ contents = <<>>
    /\ results = <<>>
    /\ peer = NoPeer
    /\ current = 1
    /\ brand_identity = EmptyDict

request == <<filename, content_type, payload, brand_name>>

\* seeded fault: the media type is checked before the filename
ValidateTypeFirst ==
    /\ pc = "validate"
    /\ IF ~InList(content_type, allowed_types)
       THEN Raise(HTTPException(400, MsgUnsupported \o ReprList(allowed_types)), <<>>)
       ELSE IF ~Truthy(filename)
       THEN Raise(HTTPException(400, MsgNoFile), <<>>)
       ELSE /\ pc' = "read"
            /\ UNCHANGED <<outcome, logs>>
    /\ UNCHANGED <<request, pdf_bytes, extracted_text, client_arg, golden_circle,
                   fallback_brand, source, calls, observed, derived, position, round,
                   first, aside>>

\* the filename check, then the media type check
Validate ==
    /\ pc = "validate"
    /\ IF ~Truthy(filename)
       THEN Raise(HTTPException(400, MsgNoFile), <<>>)
       ELSE IF ~InList(content_type, allowed_types)
       THEN Raise(HTTPException(400, MsgUnsupported \o ReprList(allowed_types)), <<>>)
       ELSE /\ pc' = "read"
            /\ UNCHANGED <<outcome, logs>>
    /\ UNCHANGED <<request, pdf_bytes, extracted_text, client_arg, golden_circle,
                   fallback_brand, source, calls, observed, derived, position, round, first, aside>>

\* seeded fault: the upload is left at its end after the read
ReadUploadNoRewind ==
    /\ pc = "read"
    /\ \E o \in UploadOutcomes :
        /\ calls' = [calls EXCEPT !.read = @ + 1,
                                  !.seek = IF o.at = "read" THEN @ ELSE @ + 1]
        /\ pdf_bytes' = IF o.at = "read" THEN None ELSE From(payload, position)
        /\ position' = IF o.at = "read" THEN position ELSE Len(payload)
        /\ observed' = [observed EXCEPT !.upload = o.exc]
        /\ IF o.at = "none"
           THEN /\ pc' = "extract"
                /\ UNCHANGED <<outcome, logs>>
           ELSE Raise(o.exc, <<>>)
    /\ UNCHANGED <<request, extracted_text, client_arg, golden_circle,
                   fallback_brand, source, derived, round, first, aside>>

\* pdf_bytes = await interview_file.read(); await interview_file.seek(0)
ReadUpload ==
    /\ pc = "read"
    /\ \E o \in UploadOutcomes :
        /\ calls' = [calls EXCEPT !.read = @ + 1,
                                  !.seek = IF o.at = "read" THEN @ ELSE @ + 1]
        /\ pdf_bytes' = IF o.at = "read" THEN None ELSE From(payload, position)
        /\ position' = IF o.at = "read" THEN position
                       ELSE IF o.at = "seek" THEN Len(payload)
                       ELSE 0
        /\ observed' = [observed EXCEPT !.upload = o.exc]
        /\ IF o.at = "none"
           THEN /\ pc' = "extract"
                /\ UNCHANGED <<outcome, logs>>
           ELSE Raise(o.exc, <<>>)
    /\ UNCHANGED <<request, extracted_text, client_arg, golden_circle,
                   fallback_brand, source, derived, round, first, aside>>

\* seeded fault: a failed extraction is tried a second time
ExtractTextRetrying ==
    /\ pc = "extract"
    /\ \E o \in ConverterOutcomes :
        /\ calls' = [calls EXCEPT !.extractor = @ + 1]
        /\ IF o.ok
           THEN /\ extracted_text' = o.text
                /\ observed' = [observed EXCEPT !.extractor = o.exc]
                /\ pc' = "infer"
                /\ UNCHANGED <<outcome, logs>>
           ELSE IF calls.extractor = 0
           THEN /\ UNCHANGED <<extracted_text, observed, pc, outcome, logs>>
           ELSE /\ extracted_text' = None
                /\ observed' = [observed EXCEPT !.extractor = o.exc]
                /\ Raise(ExtractHandler(o.exc), ExtractHandlerLogs(o.exc))
    /\ UNCHANGED <<request, pdf_bytes, client_arg, golden_circle,
                   fallback_brand, source, derived, position, round, first, aside>>

\* extracted_text = self._extract_text_from_pdf_bytes(pdf_bytes)
ExtractText ==
    /\ pc = "extract"
    /\ \E o \in ConverterOutcomes :
        /\ calls' = [calls EXCEPT !.extractor = @ + 1]
        /\ observed' = [observed EXCEPT !.extractor = o.exc]
        /\ IF o.ok
           THEN /\ extracted_text' = o.text
                /\ pc' = "infer"
                /\ UNCHANGED <<outcome, logs>>
           ELSE /\ extracted_text' = None
                /\ Raise(ExtractHandler(o.exc), ExtractHandlerLogs(o.exc))
    /\ UNCHANGED <<request, pdf_bytes, client_arg, golden_circle,
                   fallback_brand, source, derived, position, round, first, aside>>

\* seeded fault: the inference client is handed the bytes of the upload
MarkdownRaw(bytes, text) == bytes

\* markdown=extracted_text, of the two locals pdf_bytes and extracted_text
Markdown(bytes, text) == text

\* the inner try: the inference client, and the fallback when it raises
ExtractGoldenCircle ==
    /\ pc = "infer"
    /\ \E o \in ClientOutcomes :
        /\ client_arg' = IF o.exc \in ImportErrors THEN None
                         ELSE Markdown(pdf_bytes, extracted_text)
        /\ observed' = [observed EXCEPT !.client = o.exc, !.client_dict = o.dict]
        /\ IF o.ok
           THEN /\ golden_circle' = OverrideInferred(o.dict, brand_name)
                /\ source' = "client"
                /\ calls' = [calls EXCEPT !.client = @ + 1]
                /\ pc' = "return"
                /\ UNCHANGED <<fallback_brand, logs, outcome>>
           ELSE IF InnerHandlerCatches(o.exc)
           THEN LET name == ResolveBrandName(brand_name, filename)
                IN  /\ logs' = Append(logs,
                            LogRecord("warning",
                                LogBamlFailed \o o.exc.type \o <<":"," ">> \o StrExc(o.exc)
                                \o LogFallingBack))
                    /\ fallback_brand' = name
                    /\ golden_circle' = ProcessInterviewForGoldenCircle(extracted_text, name)
                    /\ source' = "fallback"
                    /\ calls' = [calls EXCEPT
                            !.client = IF o.exc \in ImportErrors THEN @ ELSE @ + 1,
                            !.fallback = @ + 1]
                    /\ pc' = "return"
                    /\ UNCHANGED outcome
           ELSE /\ calls' = [calls EXCEPT
                        !.client = IF o.exc \in ImportErrors THEN @ ELSE @ + 1]
                /\ Raise(o.exc, <<>>)
                /\ UNCHANGED <<golden_circle, fallback_brand, source>>
    /\ UNCHANGED <<request, pdf_bytes, extracted_text, derived, position, round, first, aside>>

\* seeded fault: the success line is logged at warning level
ReturnGoldenCircleWarning ==
    /\ pc = "return"
    /\ logs' = Append(logs, LogRecord("warning", LogGenerated \o Str(golden_circle.brand_name)))
    /\ pc' = "assemble"
    /\ UNCHANGED <<request, pdf_bytes, extracted_text, client_arg, golden_circle,
                   fallback_brand, source, outcome, calls, observed, derived, position,
                   round, first, aside>>

\* logger.info(...); return golden_circle
ReturnGoldenCircle ==
    /\ pc = "return"
    /\ logs' = Append(logs, LogRecord("info", LogGenerated \o Str(golden_circle.brand_name)))
    /\ pc' = "assemble"
    /\ UNCHANGED <<request, pdf_bytes, extracted_text, client_arg, golden_circle,
                   fallback_brand, source, outcome, calls, observed, derived, position, round, first, aside>>

\* return GoldenCircleResponse(**golden_circle_data)
Assemble ==
    /\ pc = "assemble"
    /\ IF Validates(golden_circle)
       THEN /\ outcome' = Response(golden_circle)
            /\ UNCHANGED logs
       ELSE LET e == Exc(TypeValidationError, MsgValidation)
            IN  /\ outcome' = Error(ResponseHandler(e))
                /\ logs' = logs \o ResponseHandlerLogs(e)
    /\ pc' = "done"
    /\ UNCHANGED <<request, pdf_bytes, extracted_text, client_arg, golden_circle,
                   fallback_brand, source, calls, observed, derived, position, round, first, aside>>

Next ==
    \/ Validate
    \/ ReadUpload
    \/ ExtractText
    \/ ExtractGoldenCircle
    \/ ReturnGoldenCircle
    \/ Assemble

Spec == Init /\ [][Next]_vars

\* the request under a scheduler that runs every step that is ready: each
\* step is one awaited or synchronous call, which returns or raises
SpecLive == Init /\ [][Next]_vars /\ WF_vars(Next)

----------------------------------------------------------------------------
(* The same request submitted a second time.  get_branding_service builds  *)
(* a new BrandingService for every call and the service keeps no state, so *)
(* the second call starts from fresh locals; what it can inherit is the    *)
(* file position of the upload, when the same upload object is passed      *)
(* again, and the logger's output.                                         *)

CallAgain ==
    /\ pc = "done"
    /\ round = 1
    /\ first' = [outcome |-> outcome, observed |-> observed, calls |-> calls,
                 pdf_bytes |-> pdf_bytes, extracted_text |-> extracted_text]
    /\ round' = 2
    /\ \E p \in {position, 0} : position' = p
    /\ pc' = "validate"
    /\ pdf_bytes' = None
    /\ extracted_text' = None
    /\ client_arg' = None
    /\ golden_circle' = EmptyDict
    /\ fallback_brand' = None
    /\ source' = "none"
    /\ outcome' = Pending
    /\ calls' = NoCalls
    /\ observed' = NothingObserved
    /\ UNCHANGED <<request, logs, derived, aside>>

NextTwice ==
    \/ Next
    \/ CallAgain

SpecTwice == Init /\ [][NextTwice]_vars

----------------------------------------------------------------------------
(* The brand-name derivation taken alone *)

InitName ==
    /\ pc = "derive"
    /\ filename \in NameInputs
    /\ content_type = None
    /\ payload = <<>>
    /\ brand_name = None
    /\ pdf_bytes = None
    /\ extracted_text = None
    /\ client_arg = None
    /\ golden_circle = EmptyDict
    /\ fallback_brand = None
    /\ source = "none"
    /\ outcome = Pending
    /\ logs = <<>>
    /\ calls = NoCalls
    /\ observed = NothingObserved
    /\ derived = None
    /\ position = 0
    /\ round = 1
    /\ first = NoFirst
    /\ contents = <<>>
    /\ results = <<>>
    /\ peer = NoPeer
    /\ current = 1
    /\ brand_identity = EmptyDict

DeriveBrandName ==
    /\ pc = "derive"
    /\ derived' = ExtractBrandNameFromFilename(filename)
    /\ pc' = "derived"
    /\ UNCHANGED <<request, pdf_bytes, extracted_text, client_arg, golden_circle,
                   fallback_brand, source, outcome, logs, calls, observed, position, round,
                   first, aside>>

NextName == DeriveBrandName

SpecName == InitName /\ [][NextName]_vars

----------------------------------------------------------------------------
(* The fallback generator alone: _process_interview_for_golden_circle      *)
(* called with one brand name and each of two texts                        *)

FallbackNames == {
    <<>>,
    <<" ">>,
    BrandTestCompany,
    BrandAcme,
    BrandOlillac,
    BrandBrand,
    BrandMyCompany,
    BrandSimple,
    BrandCompanyNameFinal }

FallbackContents ==
    Texts \cup { <<" "," "," ">>, <<"Q",":"," ","W","h","o"," ","a","r","e"," ","y","o","u","?"," ","A",
                            ":"," ","A","c","m","e",".">> }

InitFallback ==
    /\ pc = "generate"
    /\ filename = None
    /\ content_type = None
    /\ payload = <<>>
    /\ brand_name \in FallbackNames
    /\ pdf_bytes = None
    /\ extracted_text = None
    /\ client_arg = None
    /\ golden_circle = EmptyDict
    /\ fallback_brand = None
    /\ source = "none"
    /\ outcome = Pending
    /\ logs = <<>>
    /\ calls = NoCalls
    /\ observed = NothingObserved
    /\ derived = None
    /\ position = 0
    /\ round = 1
    /\ first = NoFirst
    /\ contents \in FallbackContents \X FallbackContents
    /\ results = <<>>
    /\ peer = NoPeer
    /\ current = 1
    /\ brand_identity = EmptyDict

GenerateFallback ==
    /\ pc = "generate"
    /\ results' = << ProcessInterviewForGoldenCircle(contents[1], brand_name),
                     ProcessInterviewForGoldenCircle(contents[2], brand_name) >>
    /\ pc' = "generated"
    /\ UNCHANGED <<request, pdf_bytes, extracted_text, client_arg, golden_circle,
                   fallback_brand, source, outcome, logs, calls, observed, derived,
                   position, round, first, contents, peer, current, brand_identity>>

NextFallback == GenerateFallback

SpecFallback == InitFallback /\ [][NextFallback]_vars

----------------------------------------------------------------------------
(* Two requests in flight.  Each call of the endpoint has its own upload,  *)
(* its own BrandingService from get_branding_service and its own locals;   *)
(* the module's logger is the one thing both write to.  The variables hold *)
(* the request that is running, peer holds the suspended one, and Switch   *)
(* hands the processor to the other request between any two steps.         *)

\* what belongs to the running request
Own ==
    [pc |-> pc, filename |-> filename, content_type |-> content_type,
     payload |-> payload, brand_name |-> brand_name, pdf_bytes |-> pdf_bytes,
     extracted_text |-> extracted_text, client_arg |-> client_arg,
     golden_circle |-> golden_circle, fallback_brand |-> fallback_brand,
     source |-> source, outcome |-> outcome, calls |-> calls,
     observed |-> observed, position |-> position]

\* a request that has not started
Fresh(fname, ctype, bytes, override) ==
    [pc |-> "validate", filename |-> fname, content_type |-> ctype,
     payload |-> bytes, brand_name |-> override, pdf_bytes |-> None,
     extracted_text |-> None, client_arg |-> None,
     golden_circle |-> EmptyDict, fallback_brand |-> None,
     source |-> "none", outcome |-> Pending, calls |-> NoCalls,
     observed |-> NothingObserved, position |-> 0]

\* the running request's upload, and the other request's
PairFilenames == { FnOlillac }

PeerFilenames == { FnCompanyNameFinal }

PairContentTypes == { MimePdf, MimeJpeg }

PairPayloads == { <<"%","P","D","F","-","1",".","4">> }

PairBrandNames == { None, BrandTestCompany }

InitPair ==
    /\ pc = "validate"
    /\ filename \in PairFilenames
    /\ content_type \in PairContentTypes
    /\ payload \in PairPayloads
    /\ brand_name \in PairBrandNames
    /\ pdf_bytes = None
    /\ extracted_text = None
    /\ client_arg = None
    /\ golden_circle = EmptyDict
    /\ fallback_brand = None
    /\ source = "none"
    /\ outcome = Pending
    /\ logs = <<>>
    /\ calls = NoCalls
    /\ observed = NothingObserved
    /\ derived = None
    /\ position = 0
    /\ round = 1
    /\ first = NoFirst
    /\ contents = <<>>
    /\ results = <<>>
    /\ peer \in {Fresh(f, c, p, b) : f \in PeerFilenames, c \in PairContentTypes,
                                     p \in PairPayloads, b \in PairBrandNames}
    /\ current = 1
    /\ brand_identity = EmptyDict

\* seeded fault: golden_circle is kept on a service both requests use
SwitchSharingResult ==
    /\ peer.pc # "done"
    /\ peer' = Own
    /\ current' = 3 - current
    /\ pc' = peer.pc
    /\ filename' = peer.filename
    /\ content_type' = peer.content_type
    /\ payload' = peer.payload
    /\ brand_name' = peer.brand_name
    /\ pdf_bytes' = peer.pdf_bytes
    /\ extracted_text' = peer.extracted_text
    /\ client_arg' = peer.client_arg
    /\ fallback_brand' = peer.fallback_brand
    /\ source' = peer.source
    /\ outcome' = peer.outcome
    /\ calls' = peer.calls
    /\ observed' = peer.observed
    /\ position' = peer.position
    /\ UNCHANGED <<golden_circle, logs, derived, round, first, contents, results,
                   brand_identity>>

\* the other request runs next
Switch ==
    /\ peer.pc # "done"
    /\ peer' = Own
    /\ current' = 3 - current
    /\ pc' = peer.pc
    /\ filename' = peer.filename
    /\ content_type' = peer.content_type
    /\ payload' = peer.payload
    /\ brand_name' = peer.brand_name
    /\ pdf_bytes' = peer.pdf_bytes
    /\ extracted_text' = peer.extracted_text
    /\ client_arg' = peer.client_arg
    /\ golden_circle' = peer.golden_circle
    /\ fallback_brand' = peer.fallback_brand
    /\ source' = peer.source
    /\ outcome' = peer.outcome
    /\ calls' = peer.calls
    /\ observed' = peer.observed
    /\ position' = peer.position
    /\ UNCHANGED <<logs, derived, round, first, contents, results, brand_identity>>

NextPair ==
    \/ Next
    \/ Switch

SpecPair == InitPair /\ [][NextPair]_vars

----------------------------------------------------------------------------
(* The same upload submitted twice, once with no brand_name form field and *)
(* once with an empty one, as two requests in flight                       *)

OverrideFilenames == { FnOlillac, FnHyphenMarkerOnly }

\* Optional[str] = Form(None): the field left out, and the field left empty
AbsentOverrides == { None, <<>> }

InitOverride ==
    /\ pc = "validate"
    /\ filename \in OverrideFilenames
    /\ content_type \in PairContentTypes
    /\ payload \in PairPayloads
    /\ brand_name \in AbsentOverrides
    /\ pdf_bytes = None
    /\ extracted_text = None
    /\ client_arg = None
    /\ golden_circle = EmptyDict
    /\ fallback_brand = None
    /\ source = "none"
    /\ outcome = Pending
    /\ logs = <<>>
    /\ calls = NoCalls
    /\ observed = NothingObserved
    /\ derived = None
    /\ position = 0
    /\ round = 1
    /\ first = NoFirst
    /\ contents = <<>>
    /\ results = <<>>
    /\ peer \in {Fresh(filename, content_type, payload, b) :
                    b \in AbsentOverrides \ {brand_name}}
    /\ current = 1
    /\ brand_identity = EmptyDict

SpecOverride == InitOverride /\ [][NextPair]_vars

----------------------------------------------------------------------------
(* The brand identity pipeline: create_brand_identity_response calling     *)
(* create_brand_identity_from_interview                                    *)

Whitespace == { " ", "\t", "\n", "\r" }

\* len(content.split())
WordCount(content) ==
    Cardinality({i \in 1..Len(content) :
        /\ content[i] \notin Whitespace
        /\ (i = 1 \/ content[i - 1] \in Whitespace)})

\* content[:200] + "..." if len(content) > 200 else content
ContentPreview(content) ==
    IF Len(content) > 200 THEN Upto(content, 200) \o <<".",".",".">> ELSE content

\* BrandingService._process_interview_content
ProcessInterviewContent(content, name) ==
    [brand_name |-> name,
     interview_summary |->
        [word_count |-> WordCount(content),
         content_preview |-> ContentPreview(content)],
     brand_attributes |->
        [tone |-> <<"p","r","o","f","e","s","s","i","o","n","a","l">>,
         values |-> << <<"i","n","n","o","v","a","t","i","o","n">>, <<"q","u","a","l","i","t","y">>, <<"c","u","s","t","o","m","e","r","-","f","o","c","u","s">> >>,
         target_audience |-> <<"b","u","s","i","n","e","s","s"," ","p","r","o","f","e","s","s",
                               "i","o","n","a","l","s">>,
         brand_personality |-> <<"m","o","d","e","r","n"," ","a","n","d"," ","a","p","p","r","o",
                                 "a","c","h","a","b","l","e">>],
     visual_guidelines |->
        [primary_colors |-> << <<"#","2","E","3","4","4","0">>, <<"#","5","E","8","1","A","C">> >>,
         font_suggestions |-> << <<"H","e","l","v","e","t","i","c","a">>, <<"O","p","e","n"," ","S","a","n","s">> >>,
         style |-> <<"m","i","n","i","m","a","l","i","s","t">>],
     messaging |->
        [tagline |-> <<"I","n","n","o","v","a","t","i","o","n"," ","m","e","e","t","s"," ","e",
                       "x","c","e","l","l","e","n","c","e">>,
         value_proposition |->
            <<"D","e","l","i","v","e","r","i","n","g"," ","q","u","a","l","i","t","y"," ","s","o",
              "l","u","t","i","o","n","s"," ","f","o","r"," ","m","o","d","e","r","n"," ","b","u",
              "s","i","n","e","s","s","e","s">>]]

\* BrandStrategyResponse(**brand_identity_data) validates: the required
\* fields brand_name and strategy are there (keys the model does not
\* declare are ignored)
ValidatesBrandStrategy(data) ==
    /\ "brand_name" \in DOMAIN data
    /\ IsStr(data.brand_name)
    /\ "strategy" \in DOMAIN data
    /\ {"golden_circle", "positioning", "values"} \subseteq DOMAIN data.strategy

MsgUnexpectedIdentity ==
    <<"A","n"," ","u","n","e","x","p","e","c","t","e","d"," ","e","r","r","o","r"," ","o","c","c",
      "u","r","r","e","d"," ","w","h","i","l","e"," ","p","r","o","c","e","s","s","i","n","g"," ",
      "t","h","e"," ","b","r","a","n","d"," ","i","d","e","n","t","i","t","y"," ","r","e","q","u",
      "e","s","t">>

MsgMissingStrategy == <<"1"," ","v","a","l","i","d","a","t","i","o","n"," ","e","r","r","o","r",
                        " ","f","o","r"," ","B","r","a","n","d","S","t","r","a","t","e","g","y",
                        "R","e","s","p","o","n","s","e"," ","s","t","r","a","t","e","g","y"," ",
                        "F","i","e","l","d"," ","r","e","q","u","i","r","e","d">>

LogGeneratedIdentity == <<"S","u","c","c","e","s","s","f","u","l","l","y"," ","g","e","n","e","r",
                          "a","t","e","d"," ","b","r","a","n","d"," ","i","d","e","n","t","i","t",
                          "y"," ","f","o","r"," ">>

LogProcessingErrorIdentity == <<"E","r","r","o","r"," ","p","r","o","c","e","s","s","i","n","g",
                                " ","i","n","t","e","r","v","i","e","w"," ","f","i","l","e",":",
                                " ">>

LogUnexpectedIdentity == <<"U","n","e","x","p","e","c","t","e","d"," ","e","r","r","o","r"," ",
                           "i","n"," ","b","r","a","n","d"," ","i","d","e","n","t","i","t","y",
                           " ","c","r","e","a","t","i","o","n",":"," ">>

\* except clauses of create_brand_identity_from_interview
IdentityHandler(e) ==
    IF IsHTTP(e) THEN e
    ELSE IF e.type = TypeUnicodeDecodeError THEN HTTPException(400, MsgEncoding)
    ELSE HTTPException(500, MsgInternal)

IdentityHandlerLogs(e) ==
    IF IsHTTP(e) \/ e.type = TypeUnicodeDecodeError THEN <<>>
    ELSE <<LogRecord("error", LogProcessingErrorIdentity \o StrExc(e))>>

\* except clauses of create_brand_identity_response
IdentityResponseHandler(e) ==
    IF IsHTTP(e) THEN e ELSE HTTPException(500, MsgUnexpectedIdentity)

IdentityResponseHandlerLogs(e) ==
    IF IsHTTP(e) THEN <<>> ELSE <<LogRecord("error", LogUnexpectedIdentity \o StrExc(e))>>

\* an exception raised in the try block of create_brand_identity_from_interview
\* reaches the caller through both handlers
RaiseIdentity(e, more_logs) ==
    LET e1 == IdentityHandler(e)
        e2 == IdentityResponseHandler(e1)
    IN  /\ outcome' = Error(e2)
        /\ logs' = logs \o more_logs \o IdentityHandlerLogs(e)
                        \o IdentityResponseHandlerLogs(e1)
        /\ pc' = "done"

\* the filename check, then the media type check
ValidateIdentity ==
    /\ pc = "validate"
    /\ IF ~Truthy(filename)
       THEN RaiseIdentity(HTTPException(400, MsgNoFile), <<>>)
       ELSE IF ~InList(content_type, allowed_types)
       THEN RaiseIdentity(HTTPException(400, MsgUnsupported \o ReprList(allowed_types)),
                          <<>>)
       ELSE /\ pc' = "read"
            /\ UNCHANGED <<outcome, logs>>
    /\ UNCHANGED <<request, pdf_bytes, extracted_text, client_arg, golden_circle,
                   fallback_brand, source, calls, observed, derived, position, round,
                   first, aside>>

\* pdf_bytes = await interview_file.read(); await interview_file.seek(0)
ReadUploadIdentity ==
    /\ pc = "read"
    /\ \E o \in UploadOutcomes :
        /\ calls' = [calls EXCEPT !.read = @ + 1,
                                  !.seek = IF o.at = "read" THEN @ ELSE @ + 1]
        /\ pdf_bytes' = IF o.at = "read" THEN None ELSE From(payload, position)
        /\ position' = IF o.at = "read" THEN position
                       ELSE IF o.at = "seek" THEN Len(payload)
                       ELSE 0
        /\ observed' = [observed EXCEPT !.upload = o.exc]
        /\ IF o.at = "none"
           THEN /\ pc' = "extract"
                /\ UNCHANGED <<outcome, logs>>
           ELSE RaiseIdentity(o.exc, <<>>)
    /\ UNCHANGED <<request, extracted_text, client_arg, golden_circle,
                   fallback_brand, source, derived, round, first, aside>>

\* extracted_text = self._extract_text_from_pdf_bytes(pdf_bytes)
ExtractTextIdentity ==
    /\ pc = "extract"
    /\ \E o \in ConverterOutcomes :
        /\ calls' = [calls EXCEPT !.extractor = @ + 1]
        /\ observed' = [observed EXCEPT !.extractor = o.exc]
        /\ IF o.ok
           THEN /\ extracted_text' = o.text
                /\ pc' = "process"
                /\ UNCHANGED <<outcome, logs>>
           ELSE /\ extracted_text' = None
                /\ RaiseIdentity(ExtractHandler(o.exc), ExtractHandlerLogs(o.exc))
    /\ UNCHANGED <<request, pdf_bytes, client_arg, golden_circle,
                   fallback_brand, source, derived, position, round, first, aside>>

\* brand_identity = await self._process_interview_content(...); logger.info(...)
ProcessContent ==
    /\ pc = "process"
    /\ LET name == ResolveBrandName(brand_name, filename)
           data == ProcessInterviewContent(extracted_text, name)
       IN  /\ brand_identity' = data
           /\ logs' = Append(logs,
                        LogRecord("info", LogGeneratedIdentity \o Str(data.brand_name)))
    /\ pc' = "assemble"
    /\ UNCHANGED <<request, pdf_bytes, extracted_text, client_arg, golden_circle,
                   fallback_brand, source, outcome, calls, observed, derived, position,
                   round, first, contents, results, peer, current>>

\* return BrandStrategyResponse(**brand_identity_data)
AssembleIdentity ==
    /\ pc = "assemble"
    /\ IF ValidatesBrandStrategy(brand_identity)
       THEN /\ outcome' = Response(brand_identity)
            /\ UNCHANGED logs
       ELSE LET e == Exc(TypeValidationError, MsgMissingStrategy)
            IN  /\ outcome' = Error(IdentityResponseHandler(e))
                /\ logs' = logs \o IdentityResponseHandlerLogs(e)
    /\ pc' = "done"
    /\ UNCHANGED <<request, pdf_bytes, extracted_text, client_arg, golden_circle,
                   fallback_brand, source, calls, observed, derived, position, round,
                   first, aside>>

NextIdentity ==
    \/ ValidateIdentity
    \/ ReadUploadIdentity
    \/ ExtractTextIdentity
    \/ ProcessContent
    \/ AssembleIdentity

SpecIdentity == Init /\ [][NextIdentity]_vars

----------------------------------------------------------------------------
(* Properties of the request (checked under Spec) *)

TextUnsupported == <<"U","n","s","u","p","p","o","r","t","e","d"," ","f","i","l","e"," ","t","y",
                     "p","e">>
TextFailedToExtract == <<"F","a","i","l","e","d"," ","t","o"," ","e","x","t","r","a","c","t"," ",
                         "t","e","x","t">>
TextNoFile == <<"N","o"," ","f","i","l","e"," ","p","r","o","v","i","d","e","d">>

Done == pc = "done"
Responded == Done /\ outcome.kind = "response"
Failed(status) == Done /\ outcome.kind = "error" /\ outcome.status_code = status

\* no collaborator was touched: the upload was not read, and the extractor,
\* the inference client and the fallback generator were not invoked
Untouched ==
    /\ calls = NoCalls
    /\ pdf_bytes = None
    /\ extracted_text = None
    /\ client_arg = None
    /\ fallback_brand = None
    /\ source = "none"
    /\ observed = NothingObserved

C2_ClientFailureFallsBack ==
    (observed.client # NoExc) =>
        /\ outcome.kind # "error"
        /\ source = "fallback"
        /\ Done =>
            /\ Responded
            /\ \A k \in {"why", "how", "what"} :
                  IsStr(outcome.body.golden_circle[k]) /\ Len(outcome.body.golden_circle[k]) > 0
            /\ StartsWith(outcome.body.golden_circle.why, FallbackWhyHead)
            /\ outcome.body.golden_circle.how = FallbackHow

C2_Witness ==
    /\ Responded
    /\ observed.client = ErrUpstream
    /\ extracted_text = <<>>
    /\ source = "fallback"

\* C3: a response to a request with a non-empty override carries exactly the
\* override as brand_name, on the inference path and on the fallback path.
C3_OverrideWins ==
    (Responded /\ Truthy(brand_name)) => outcome.body.brand_name = brand_name

C3_Witness ==
    /\ Responded
    /\ brand_name = BrandTestCompany
    /\ source = "client"
    /\ observed.client_dict.brand_name = BrandAcme
    /\ outcome.body.brand_name = BrandTestCompany

\* C4 (as claimed): whatever exception is raised inside the extractor, the
\* request fails with HTTP 400 "Failed to extract text...", and neither the
\* inference client nor the fallback is invoked.
C4_AnyExtractorFailure ==
    (observed.extractor # NoExc) =>
        /\ Failed(400)
        /\ Contains(outcome.detail, TextFailedToExtract)
        /\ calls.client = 0 /\ calls.fallback = 0

\* C4 (amended): an exception other than an HTTPException raised inside the
\* extractor ends the request with HTTP 400 "Failed to extract text..."; an
\* HTTPException raised there reaches the caller as it is; in both cases
\* neither the inference client nor the fallback is invoked.
C4_ExtractorFailure ==
    (observed.extractor # NoExc) =>
        /\ Done /\ outcome.kind = "error"
        /\ calls.client = 0 /\ calls.fallback = 0 /\ source = "none"
        /\ IF IsHTTP(observed.extractor)
           THEN outcome = Error(observed.extractor)
           ELSE Failed(400) /\ Contains(outcome.detail, TextFailedToExtract)

C4_Witness ==
    /\ Failed(400)
    /\ observed.extractor = ErrDecode
    /\ Contains(outcome.detail, TextFailedToExtract)
    /\ calls.extractor = 1

\* C5: a request whose upload has no filename (None or "") ends with HTTP 400
\* and the detail "No file provided", and touches neither the upload nor any
\* collaborator.
C5_NoFilename ==
    (filename = None \/ filename = <<>>) =>
        /\ Untouched
        /\ pc \in {"validate", "done"}
        /\ Done => Failed(400) /\ outcome.detail = TextNoFile

C5_Witness ==
    /\ Failed(400)
    /\ filename = <<>>
    /\ content_type = MimePdf
    /\ outcome.detail = TextNoFile

\* C6 (as claimed): a request with a filename, media type application/pdf and
\* an empty payload, once read, always ends with HTTP 400 "Failed to extract
\* text...", never with a response.  Stated for the requests in which the
\* converter raises no HTTPException of its own (those are the case of C4).
C6_EmptyPayloadRejected ==
    (Done /\ Truthy(filename) /\ content_type = MimePdf /\ payload = <<>>
          /\ observed.upload = NoExc /\ ~IsHTTP(observed.extractor)) =>
        Failed(400) /\ Contains(outcome.detail, TextFailedToExtract)

C10_BrandNameNeverEmpty ==
    /\ fallback_brand # None => Len(fallback_brand) > 0
    /\ Responded => Len(outcome.body.brand_name) > 0

\* C11 (as claimed): every response carries a non-empty brand_name, why, how
\* and what, on the inference path as on the fallback path.
C11_LeavesNonEmpty ==
    Responded =>
        /\ Len(outcome.body.brand_name) > 0
        /\ \A k \in {"why", "how", "what"} : Len(outcome.body.golden_circle[k]) > 0

TextUnexpected ==
    <<"A","n"," ","u","n","e","x","p","e","c","t","e","d"," ","e","r","r","o","r"," ","o","c","c",
      "u","r","r","e","d"," ","w","h","i","l","e"," ","p","r","o","c","e","s","s","i","n","g"," ",
      "t","h","e"," ","G","o","l","d","e","n"," ","C","i","r","c","l","e"," ","r","e","q","u","e",
      "s","t">>

\* the data handed to the assembly lacks a string at one of its four leaves
Malformed(data) ==
    \E v \in {data.brand_name, data.golden_circle.why, data.golden_circle.how,
              data.golden_circle.what} : v = Missing \/ v = None

\* the request got as far as the assembly
Assembled == Done /\ source # "none"

\* C12: when the data returned by the pipeline does not have the shape
\* brand_name / golden_circle{why, how, what}, the caller gets HTTP 500 with
\* the fixed detail "An unexpected error occurred while processing the Golden
\* Circle request", which holds nothing of the exception's message.
C12_AssemblyFailureIs500 ==
    (Assembled /\ Malformed(golden_circle)) =>
        /\ Failed(500)
        /\ outcome.detail = TextUnexpected
        /\ ~Contains(outcome.detail, MsgValidation)

C12_Witness ==
    /\ Assembled
    /\ source = "client"
    /\ observed.client_dict.golden_circle.what = Missing
    /\ brand_name = BrandTestCompany
    /\ Failed(500)

TextInternal == <<"I","n","t","e","r","n","a","l"," ","s","e","r","v","e","r"," ","e","r","r","o",
                  "r"," ","p","r","o","c","e","s","s","i","n","g"," ","f","i","l","e">>

TextEncoding == <<"F","i","l","e"," ","e","n","c","o","d","i","n","g"," ","n","o","t"," ","s","u",
                  "p","p","o","r","t","e","d","."," ","P","l","e","a","s","e"," ","u","s","e"," ",
                  "U","T","F","-","8",".">>

UploadFailed == Done /\ observed.upload # NoExc

PastExtraction ==
    \/ pc \in {"infer", "return", "assemble"}
    \/ Done /\ calls.seek = 1 /\ observed.upload = NoExc

\* the extractor returned a text, and the request is past the inference step
PastInference ==
    \/ pc \in {"return", "assemble"}
    \/ Done /\ extracted_text # None

\* attempts at the inference client: the calls made, and the attempt that
\* ended at the import
ClientAttempts ==
    calls.client + (IF observed.client \in ImportErrors THEN 1 ELSE 0)

\* C14: within one request the upload is read once, the extractor is attempted
\* at most once and the inference client at most once, exactly once each when
\* the request got to that step; nothing is retried: a failed extraction ends
\* the request with no inference and no fallback, and a failed inference is
\* followed by exactly one run of the fallback generator.
C14_NoRetries ==
    /\ \A c \in DOMAIN calls : calls[c] <= 1
    /\ ClientAttempts <= 1
    /\ PastExtraction => calls.extractor = 1
    /\ PastInference => ClientAttempts = 1
    /\ observed.extractor # NoExc =>
            /\ Done /\ outcome.kind = "error"
            /\ calls.extractor = 1 /\ ClientAttempts = 0 /\ calls.fallback = 0
    /\ observed.client # NoExc =>
            /\ ClientAttempts = 1
            /\ calls.fallback = 1 /\ source = "fallback"
    /\ observed.client = NoExc => calls.fallback = 0

C14_Witness ==
    /\ Done
    /\ observed.extractor = ErrRuntime
    /\ calls.extractor = 1
    /\ Failed(400)

InvalidUpload == ~Truthy(filename) \/ ~InList(content_type, allowed_types)

\* C22: the filename is checked before the media type, so a request with no
\* filename and a media type other than application/pdf fails with "No file
\* provided", not with "Unsupported file type"; a request failing either
\* check ends with that 400 whatever the override is, before the upload is
\* read and with no generator run on the override.
C22_FilenameCheckedFirst ==
    /\ (Done /\ ~Truthy(filename)) =>
            /\ Failed(400)
            /\ outcome.detail = TextNoFile
            /\ ~StartsWith(outcome.detail, TextUnsupported)
    /\ (Done /\ Truthy(filename) /\ ~InList(content_type, allowed_types)) =>
            /\ Failed(400)
            /\ StartsWith(outcome.detail, TextUnsupported)
    /\ (pc # "validate" /\ InvalidUpload) =>
            /\ Done /\ Failed(400)
            /\ Untouched
            /\ source = "none" /\ fallback_brand = None
            /\ golden_circle = EmptyDict

C22_Witness ==
    /\ Done
    /\ filename = None
    /\ content_type = MimeJpeg
    /\ brand_name = BrandTestCompany
    /\ Failed(400)
    /\ outcome.detail = TextNoFile

TextGenerated == <<"S","u","c","c","e","s","s","f","u","l","l","y"," ","g","e","n","e","r","a",
                   "t","e","d"," ","G","o","l","d","e","n"," ","C","i","r","c","l","e"," ","f",
                   "o","r"," ">>

Logged(level) == {r \in 1..Len(logs) : logs[r].level = level}

\* C23: a request answered from the inference client has logged exactly one
\* line, an informational one naming the brand, and no warning; a request
\* that fell back has logged exactly one warning, which names the exception's
\* type and message; a request that returns a response has logged nothing at
\* error level; no request logs more than one warning.
C23_LogLines ==
    /\ Cardinality(Logged("warning")) <= 1
    /\ (Responded /\ source = "client") =>
            logs = << LogRecord("info", TextGenerated \o outcome.body.brand_name) >>
    /\ source = "fallback" =>
            /\ Cardinality(Logged("warning")) = 1
            /\ \A r \in Logged("warning") :
                  /\ Contains(logs[r].text, observed.client.type)
                  /\ Contains(logs[r].text, observed.client.detail)
    /\ source = "client" => Logged("warning") = {}
    /\ Responded =>
            /\ Logged("error") = {}
            /\ Cardinality(Logged("info")) = 1

C23_Witness ==
    /\ Responded
    /\ source = "fallback"
    /\ observed.client = ErrRuntime
    /\ Len(logs) = 2
    /\ logs[1].level = "warning"
    /\ logs[2].level = "info"

IsDecodeError(e) == e.type = TypeUnicodeDecodeError

\* C27: a UnicodeDecodeError is reported by where it was raised: from the
\* upload it becomes HTTP 400 with the encoding detail, inside the extractor
\* it becomes HTTP 400 "Failed to extract text...", from the inference client
\* it leads to the fallback and a response; it never becomes a 500.
C27_DecodeErrorByPlace ==
    Done =>
        /\ IsDecodeError(observed.upload) =>
                (Failed(400) /\ outcome.detail = TextEncoding)
        /\ IsDecodeError(observed.extractor) =>
                /\ Failed(400)
                /\ StartsWith(outcome.detail, TextFailedToExtract)
                /\ outcome.detail # TextEncoding
        /\ IsDecodeError(observed.client) =>
                (Responded /\ source = "fallback" /\ calls.fallback = 1)
        /\ (\E e \in {observed.upload, observed.extractor, observed.client} :
                IsDecodeError(e)) => ~Failed(500)

C27_Witness ==
    /\ Done
    /\ observed.extractor = ErrDecode
    /\ Failed(400)
    /\ StartsWith(outcome.detail, TextFailedToExtract)

----------------------------------------------------------------------------
(* Properties of the repeated request (SpecTwice) *)

Repeated == round = 2 /\ Done

\* the upload behaved in the second call as in the first
SameUpload ==
    /\ calls.read = first.calls.read
    /\ calls.seek = first.calls.seek
    /\ observed.upload = first.observed.upload

\* the extractor, given the same bytes in both calls, did the same
DeterministicExtractor ==
    (calls.extractor = 1 /\ first.calls.extractor = 1 /\ pdf_bytes = first.pdf_bytes) =>
        /\ observed.extractor = first.observed.extractor
        /\ extracted_text = first.extracted_text

\* the inference client, given the same text in both calls, did the same or
\* failed in both
DeterministicOrFailingClient ==
    (extracted_text # None /\ extracted_text = first.extracted_text) =>
        \/ /\ observed.client = first.observed.client
           /\ observed.client_dict = first.observed.client_dict
        \/ observed.client # NoExc /\ first.observed.client # NoExc

\* C15: a second call with the same filename, media type, bytes and override
\* ends as the first one did (the same response content, or the same error
\* status and detail), when the upload and the extractor behave the same and
\* the inference client behaves the same or fails in both calls.
C15_Idempotent ==
    (Repeated /\ SameUpload /\ DeterministicExtractor /\ DeterministicOrFailingClient) =>
        outcome = first.outcome

C15_Witness ==
    /\ Repeated /\ outcome = first.outcome
    /\ SameUpload /\ DeterministicExtractor /\ DeterministicOrFailingClient
    /\ Len(payload) > 0
    /\ first.observed.client = ErrRuntime
    /\ observed.client = ErrImport
    /\ Responded
    /\ source = "fallback"

----------------------------------------------------------------------------
(* Properties of the request, continued (checked under Spec) *)

\* the request was refused before the upload was read
ValidationFailed == Done /\ calls.read = 0

ExtractionFailed == Done /\ observed.extractor # NoExc

AssemblyFailed == Done /\ source # "none" /\ outcome.kind = "error"

\* C16 (as claimed): a call ends with a response (200), an HTTP 400 or an
\* HTTP 500; a 400 only when validation or text extraction failed, and a 500
\* for every other failure.
C16_ThreeOutcomes ==
    Done =>
        /\ Responded \/ Failed(400) \/ Failed(500)
        /\ Failed(400) => (ValidationFailed \/ ExtractionFailed)
        /\ (outcome.kind = "error" /\ ~ValidationFailed /\ ~ExtractionFailed) => Failed(500)

\* C16 (amended): a call ends with a response (200) or with an HTTP error.
\* The error is a 400 when validation failed, when extraction failed with a
\* non-HTTP exception, or when the upload raised a UnicodeDecodeError; it is
\* the HTTPException itself, with its own status, when the upload or the
\* extractor raised one; it is a 500 for every other exception of the upload
\* and for a failed assembly.
C16_Outcomes ==
    Done =>
        /\ outcome.kind \in {"response", "error"}
        /\ Responded => (outcome.status_code = 200 /\ source # "none")
        /\ ValidationFailed => Failed(400)
        /\ ExtractionFailed =>
                IF IsHTTP(observed.extractor)
                THEN outcome = Error(observed.extractor)
                ELSE Failed(400)
        /\ observed.upload # NoExc =>
                IF IsHTTP(observed.upload)
                THEN outcome = Error(observed.upload)
                ELSE IF observed.upload.type = TypeUnicodeDecodeError
                THEN Failed(400)
                ELSE Failed(500)
        /\ AssemblyFailed => Failed(500)
        /\ outcome.kind = "error" =>
                \/ ValidationFailed
                \/ ExtractionFailed
                \/ observed.upload # NoExc
                \/ AssemblyFailed
        /\ Failed(400) =>
                \/ ValidationFailed
                \/ ExtractionFailed
                \/ observed.upload.type = TypeUnicodeDecodeError

C16_Witness ==
    /\ Done
    /\ observed.upload = ErrRuntime
    /\ calls.read = 1 /\ calls.seek = 0
    /\ Failed(500)
    /\ ~ValidationFailed /\ ~ExtractionFailed

TextApplicationPdf == <<"a","p","p","l","i","c","a","t","i","o","n","/","p","d","f">>

AdvertisedMimeTypes ==
    {supported_formats[i].mime_type : i \in 1..Len(supported_formats)}

\* the filename check and the media type check let the request through
PassedValidation == pc = "read" \/ calls.read > 0

C18_StepOrder ==
    /\ calls.read > 0 => (Truthy(filename) /\ InList(content_type, allowed_types))
    /\ calls.seek > 0 => calls.read = 1
    /\ calls.extractor > 0 =>
            /\ calls.read = 1 /\ calls.seek = 1
            /\ observed.upload = NoExc
            /\ pdf_bytes = payload
    /\ ClientAttempts > 0 =>
            /\ calls.extractor = 1
            /\ observed.extractor = NoExc
            /\ extracted_text # None
    /\ calls.client > 0 => client_arg = extracted_text
    /\ calls.fallback > 0 => (ClientAttempts = 1 /\ observed.client # NoExc)
    /\ source = "client" =>
            (calls.client = 1 /\ observed.client = NoExc /\ calls.fallback = 0)
    /\ source = "fallback" => calls.fallback = 1
    /\ pc = "read" => calls = NoCalls
    /\ pc = "extract" => (calls.seek = 1 /\ calls.extractor = 0)
    /\ pc = "infer" => (calls.extractor = 1 /\ ClientAttempts = 0 /\ source = "none")
    /\ pc \in {"return", "assemble"} => (source # "none" /\ outcome = Pending)
    /\ Responded => (source # "none" /\ outcome.body = golden_circle)

C18_Witness ==
    /\ Responded
    /\ source = "fallback"
    /\ calls = [read |-> 1, seek |-> 1, extractor |-> 1, client |-> 1, fallback |-> 1]
    /\ Len(payload) > 0 /\ pdf_bytes = payload
    /\ Len(extracted_text) > 0 /\ client_arg = extracted_text
    /\ observed.client = ErrRuntime

ClientFailed == Done /\ observed.client # NoExc

\* C20: whatever the inference client raises (an HTTPException, a
\* UnicodeDecodeError, a failed import or anything else), the request ends
\* with a 200 response built by the fallback generator from the extracted text
\* and the resolved brand name; the response does not depend on the kind of
\* exception, and the exception's status or the 400 of the encoding handler
\* never reaches the caller.
C20_UniformClientFailure ==
    ClientFailed =>
        /\ Responded
        /\ outcome.status_code = 200
        /\ source = "fallback"
        /\ calls.fallback = 1
        /\ outcome.body =
              ProcessInterviewForGoldenCircle(extracted_text,
                  IF Truthy(brand_name) THEN brand_name
                  ELSE ExtractBrandNameFromFilename(filename))
        /\ \E r \in 1..Len(logs) : logs[r].level = "warning"

C20_Witness ==
    /\ ClientFailed
    /\ observed.client = ErrDecode
    /\ Len(extracted_text) > 0
    /\ Responded
    /\ source = "fallback"
    /\ outcome.body.golden_circle.how = FallbackHow

----------------------------------------------------------------------------
(* Termination of the request (checked under SpecLive) *)

\* place of a step in the text of the two functions
Rank(p) ==
    CASE p = "validate" -> 0
      [] p = "read" -> 1
      [] p = "extract" -> 2
      [] p = "infer" -> 3
      [] p = "return" -> 4
      [] p = "assemble" -> 5
      [] p = "done" -> 6

StepsForward == Rank(pc') > Rank(pc)

Ended == Done /\ outcome.kind \in {"response", "error"}

\* C28: when every awaited or called step returns or raises, the request
\* eventually ends with a response or an HTTP error and stays ended, and
\* every step moves to a later place: none goes back to or repeats a step.
C28_Terminates ==
    /\ <>[]Ended
    /\ [][StepsForward]_vars

C28_Witness ==
    /\ Ended
    /\ Responded
    /\ Rank(pc) = 6
    /\ calls = [read |-> 1, seek |-> 1, extractor |-> 1, client |-> 1, fallback |-> 0]

----------------------------------------------------------------------------
(* Properties of the fallback generator (checked under SpecFallback) *)

Generated == pc = "generated"

\* C21: for every brand name and any two texts, the empty one included, the
\* fallback generator returns the same result for both texts; the result's
\* brand_name is the brand name given, its why and what contain the brand
\* name, its how is the fixed sentence, and it is a dict the response model
\* accepts.
C21_FallbackDependsOnNameOnly ==
    Generated =>
        /\ results[1] = results[2]
        /\ \A i \in 1..2 :
            /\ results[i].brand_name = brand_name
            /\ Contains(results[i].golden_circle.why, brand_name)
            /\ Contains(results[i].golden_circle.what, brand_name)
            /\ results[i].golden_circle.how = FallbackHow
            /\ Validates(results[i])

C21_Witness ==
    /\ Generated
    /\ brand_name = BrandTestCompany
    /\ contents[1] = <<>>
    /\ Len(contents[2]) > 0
    /\ results[1] = results[2]
    /\ Contains(results[1].golden_circle.why, BrandTestCompany)

----------------------------------------------------------------------------
(* Properties of two requests in flight (checked under SpecPair) *)

\* what a request returns when it runs alone, from its own inputs and from
\* what its own collaborators did
AloneOutcome(r) ==
    IF ~Truthy(r.filename)
    THEN Error(HTTPException(400, TextNoFile))
    ELSE IF r.content_type # TextApplicationPdf
    THEN Error(HTTPException(400, MsgUnsupported \o ReprList(allowed_types)))
    ELSE IF r.observed.upload # NoExc
    THEN Error(ResponseHandler(InterviewHandler(r.observed.upload)))
    ELSE IF r.observed.extractor # NoExc
    THEN Error(ResponseHandler(InterviewHandler(ExtractHandler(r.observed.extractor))))
    ELSE LET data == IF r.observed.client # NoExc
                     THEN ProcessInterviewForGoldenCircle(r.extracted_text,
                              ResolveBrandName(r.brand_name, r.filename))
                     ELSE OverrideInferred(r.observed.client_dict, r.brand_name)
         IN  IF Validates(data)
             THEN Response(data)
             ELSE Error(ResponseHandler(Exc(TypeValidationError, MsgValidation)))

\* the locals of a request hold values of that request only
OwnValues(r) ==
    /\ r.pdf_bytes \in {None, r.payload}
    /\ r.client_arg \in {None, r.extracted_text}
    /\ r.fallback_brand \in {None, ResolveBrandName(r.brand_name, r.filename)}
    /\ r.source = "client" =>
            r.golden_circle = OverrideInferred(r.observed.client_dict, r.brand_name)
    /\ r.source = "fallback" =>
            r.golden_circle.brand_name = ResolveBrandName(r.brand_name, r.filename)

\* C24: whatever the interleaving of the steps of two requests, each request
\* that has finished has the outcome it has when it runs alone (the one its
\* own inputs and its own collaborators determine), and at every moment the
\* locals of each request hold only values of that request.
C24_NoInterference ==
    \A r \in {Own, peer} :
        /\ OwnValues(r)
        /\ r.pc = "done" => r.outcome = AloneOutcome(r)

C24_Witness ==
    /\ Done /\ peer.pc = "done"
    /\ current = 1
    /\ Responded /\ peer.outcome.kind = "response"
    /\ source = "client" /\ peer.source = "fallback"
    /\ brand_name = None /\ peer.brand_name = BrandTestCompany
    /\ outcome.body.brand_name = BrandAcme
    /\ peer.outcome.body.brand_name = BrandTestCompany
    /\ Len(logs) = 3 /\ logs[1].level = "warning" /\ logs[3].level = "info"

----------------------------------------------------------------------------
(* Properties of the empty override (checked under SpecOverride) *)

BothDone == Done /\ peer.pc = "done"

\* the collaborators did for the one request what they did for the other
SameBehaviour ==
    /\ observed = peer.observed
    /\ extracted_text = peer.extracted_text

----------------------------------------------------------------------------
(* Properties of the brand identity pipeline (checked under SpecIdentity) *)

\* the upload passed validation, was read, and its text was extracted
Extracted ==
    /\ Truthy(filename)
    /\ content_type = TextApplicationPdf
    /\ calls.extractor = 1
    /\ observed.upload = NoExc
    /\ observed.extractor = NoExc

\* C26 (as claimed): for an upload that passes validation and whose text is
\* extracted, create_brand_identity_response returns a response, not an HTTP
\* error, whose brand_name is the override or the name derived from the
\* filename.
C26_BrandIdentityResponds ==
    (Done /\ Extracted) =>
        /\ Responded
        /\ outcome.body.brand_name =
              IF Truthy(brand_name) THEN brand_name
              ELSE ExtractBrandNameFromFilename(filename)

----------------------------------------------------------------------------
(* Properties of the brand-name derivation (checked under SpecName) *)

\* the last extension of s: its last dot, when that dot lies in the last path
\* component and some character of that component before it is not a dot
ExtensionDots(s) ==
    {d \in 1..Len(s) :
        /\ s[d] = "."
        /\ \A j \in (d+1)..Len(s) : s[j] # "." /\ s[j] # "/"
        /\ \E k \in 1..(d-1) : s[k] # "." /\ \A j \in k..d : s[j] # "/"}

WithoutExtension(s) ==
    IF ExtensionDots(s) = {} THEN s
    ELSE Upto(s, (CHOOSE d \in ExtensionDots(s) : TRUE) - 1)

\* s without the characters of any occurrence of m
Occurrences(s, m) == {i \in 1..(Len(s) - Len(m) + 1) : SubSeq(s, i, i + Len(m) - 1) = m}

Kept(s, m) == {i \in 1..Len(s) : \A j \in Occurrences(s, m) : i < j \/ i >= j + Len(m)}

WithoutOccurrences(s, m) ==
    LET K == Kept(s, m)
    IN  [n \in 1..Cardinality(K) |-> s[CHOOSE i \in K : Cardinality({j \in K : j <= i}) = n]]

UnderscoresToSpaces(s) == [i \in 1..Len(s) |-> IF s[i] = "_" THEN " " ELSE s[i]]

\* every word (run of letters) capitalised: first letter upper, rest lower
TitleCased(s) ==
    [i \in 1..Len(s) |->
        IF ~IsCased(s[i]) THEN s[i]
        ELSE IF i > 1 /\ IsCased(s[i-1]) THEN ToLower(s[i]) ELSE ToUpper(s[i])]

ReferenceBrandName(fname) ==
    TitleCased(UnderscoresToSpaces(
        WithoutOccurrences(WithoutOccurrences(WithoutExtension(fname), MarkerUnderscore),
                           MarkerHyphen)))

Derived == pc = "derived"

\* C8: _extract_brand_name_from_filename is the reference transform (last
\* extension dropped, every "_interview" and then every "-interview" deleted,
\* underscores turned into spaces, hyphens kept, words title-cased), and
\* gives the four results of the claim.
C8_BrandNameTransform ==
    Derived =>
        /\ derived = ReferenceBrandName(filename)
        /\ filename = FnBrandInterview => derived = BrandBrand
        /\ filename = FnMyCompany => derived = BrandMyCompany
        /\ filename = FnSimple => derived = BrandSimple
        /\ filename = FnCompanyNameFinal => derived = BrandCompanyNameFinal

C8_Witness ==
    /\ Derived
    /\ filename = FnCompanyNameFinal
    /\ derived = BrandCompanyNameFinal

LowerCased(s) == [i \in 1..Len(s) |-> ToLower(s[i])]

\* C9 (as claimed): for a filename <stem><marker><ext>, whatever the
\* capitalisation of the marker, the derived name is the one of the
\* lower-case marker and holds no "interview" in any capitalisation.
C9_MarkerCaseInsensitive ==
    Derived =>
        \A st \in Stems, m \in MarkerForms, e \in Extensions :
            filename = st \o m \o e =>
                /\ derived = ExtractBrandNameFromFilename(st \o LowerCased(m) \o e)
                /\ ~Contains(LowerCased(derived), <<"i","n","t","e","r","v","i","e","w">>)

====
